---- MODULE Spec2Model ----
(***************************************************************************)
(* Wizarr: authorization guards (app/decorators.py), delegated Jellyfin    *)
(* authentication and guest provisioning (app/services/jellyfin_auth.py),  *)
(* the media-client base class (app/services/media/client_base.py:         *)
(* registry, construction, identity linking, image proxy URLs, the REST    *)
(* helper, statistics, join, metadata caching), the join form              *)
(* (app/forms/join.py) and invitation ownership.                           *)
(*                                                                         *)
(* The subsystems share no state, so each has its own next-state relation  *)
(* and specification (GuardSpec, AuthSpec, LinkSpec, LinkAnySpec,          *)
(* JoinSpec, RaceSpec, ProvisionSpec, LoginRaceSpec, ClientSpec,           *)
(* ProxySpec, OpsSpec, BatchSpec, InviteSpec) over the common variables;   *)
(* a specification leaves the other subsystems idle.                       *)
(***************************************************************************)
EXTENDS Integers, Sequences, FiniteSets, TLC

\* Python's None, and the marker of an attribute the object does not carry
\* (hasattr(obj, name) is False).
None == "None"
NoAttr == "<no attribute>"

(***************************************************************************)
(* Bounds                                                                  *)
(***************************************************************************)
\* Rows of the MediaServer table.
MaxServers == 3
\* Rows of the User table (stored and staged together).
MaxUsers == 3
\* Calls of register_media_client.
MaxRegistrations == 3
\* Users handed to _cache_user_metadata_batch in one call.
MaxBatch == 3
\* Invitation codes in use.
MaxInvites == 3

VARIABLES
    \* ---- guards: one guarded request -----------------------------------
    current_user,   \* flask_login.current_user, a bag of attributes
    request,        \* the guard in front of the view, the view's argument
    f_outcome,      \* what the wrapped view does when it is called
    response,       \* what the decorated function did
    \* ---- delegated authentication --------------------------------------
    media_servers,  \* the MediaServer table, in row order
    auth,           \* authenticate_jellyfin_user: position, log, result
    \* ---- identity linking ----------------------------------------------
    users,          \* the committed User rows, in row order
    session,        \* rows added to db.session and not yet committed
    link,           \* the last _create_user_with_identity_linking call
    form,           \* the last JoinForm.validate_username call
    sessions,       \* concurrent redemptions: each worker's own db.session
    \* ---- account provisioning after a delegated login ------------------
    accounts,       \* the AdminAccount table, in row order
    login,          \* the last delegated login: who, through which server
    logins,         \* concurrent delegated logins: each worker's position
    \* ---- media client registry and construction ------------------------
    CLIENTS,        \* server_type -> the MediaClient subclass registered
    _server_type,   \* the _server_type attribute of each subclass
    registrations,  \* the register_media_client calls made, in order
    settings,       \* the legacy Settings table, key -> value
    instance,       \* the MediaClient most recently constructed
    proxy,          \* the last generate_image_proxy_url() call
    \* ---- operations of a media client ---------------------------------
    stats,          \* the last get_readonly_statistics() call
    joined,         \* the last join() call
    rest_call,      \* the last RestApiMixin._request() call
    batch,          \* _cache_user_metadata_batch: position, calls made
    \* ---- invitations and their owners ----------------------------------
    invites,        \* the Invitation table: code -> creator, None if absent
    table_view      \* the last /invite/table request and its listing

vars == <<current_user, request, f_outcome, response,
          media_servers, auth, users, session, link, form, sessions,
          accounts, login, logins,
          CLIENTS, _server_type, registrations, settings, instance, proxy,
          stats, joined, rest_call, batch, invites, table_view>>

guardVars == <<current_user, request, f_outcome, response>>
authVars == <<media_servers, auth>>
linkVars == <<users, session, link, form, sessions>>
provVars == <<accounts, login, logins>>
registryVars == <<CLIENTS, _server_type, registrations>>
clientVars == <<registryVars, settings, instance, proxy>>
opsVars == <<stats, joined, rest_call>>
batchVars == <<batch>>
inviteVars == <<invites, table_view>>

(***************************************************************************)
(* Account & permission model (app.models.AdminAccount / AdminUser).       *)
(***************************************************************************)
Roles == {"admin", "guest"}
Permissions == {"manage_users", "manage_settings", "create_invites",
                "view_invites", "export_data"}

\* The objects flask_login may hand out as current_user: an AdminAccount row
\* (role, integer id, the role methods), the legacy AdminUser (id 'admin'),
\* the anonymous user (nothing), and any other principal object.
Actors ==
    [authenticated : BOOLEAN,
     role          : Roles \cup {"other", NoAttr},
     id            : {"admin", "7", NoAttr},
     methods       : BOOLEAN]

\* The decorators' test for the legacy single admin: id == 'admin'.
IsLegacy(a) == a.id = "admin"

\* Static role -> permission table.
ROLE_PERMISSIONS(role) ==
    CASE role = "admin" -> {"manage_users", "manage_settings",
                            "create_invites", "view_invites"}
      [] role = "guest" -> {"create_invites", "view_invites"}
      [] OTHER          -> {}

\* AdminAccount.is_admin() / AdminUser.is_admin()
is_admin(a) == IsLegacy(a) \/ a.role = "admin"

\* has_permission as it would be with create_invites left to admins.
has_permission_admin_only(a, p) ==
    IsLegacy(a) \/ (a.role = "admin" /\ p \in ROLE_PERMISSIONS("admin"))

\* AdminAccount.has_permission(p) / AdminUser.has_permission(p)
has_permission(a, p) == IsLegacy(a) \/ p \in ROLE_PERMISSIONS(a.role)

(***************************************************************************)
(* Authorization guards (app/decorators.py).                               *)
(***************************************************************************)
ViewArgs == {"x1", "x2"}
ViewReturns == {"r1", "r2"}
\* A view either returns a value or raises.
ViewOutcomes == ViewReturns \cup {"raise"}

\* The wrapper calling the view without returning what it returned.
CallViewDroppingReturn(x, out) ==
    [kind  |-> IF out = "raise" THEN "raised" ELSE "returned",
     value |-> IF out = "raise" THEN out ELSE None,
     calls |-> <<x>>]

\* f(*args, **kwargs): the guard's result is the view's, and the view was
\* called once with the guard's own arguments.
CallView(x, out) ==
    [kind  |-> IF out = "raise" THEN "raised" ELSE "returned",
     value |-> out,
     calls |-> <<x>>]

\* current_app.login_manager.unauthorized()
Unauthorized == [kind |-> "unauthorized", value |-> None, calls |-> <<>>]

\* abort(403)
Forbidden == [kind |-> "forbidden", value |-> None, calls |-> <<>>]

\* admin_required testing the bound method instead of calling it.
admin_required_uncalled(a, x, out) ==
    IF ~a.authenticated THEN Unauthorized
    ELSE IF a.methods THEN CallView(x, out)
    ELSE IF a.id # NoAttr /\ a.id = "admin" THEN CallView(x, out)
    ELSE Forbidden

admin_required(a, x, out) ==
    IF ~a.authenticated THEN Unauthorized
    ELSE IF a.methods /\ is_admin(a) THEN CallView(x, out)
    ELSE IF a.id # NoAttr /\ a.id = "admin" THEN CallView(x, out)
    ELSE Forbidden

\* permission_required without the legacy AdminUser fallback.
permission_required_no_legacy(p, a, x, out) ==
    IF ~a.authenticated THEN Unauthorized
    ELSE IF a.methods /\ has_permission(a, p) THEN CallView(x, out)
    ELSE Forbidden

permission_required(p, a, x, out) ==
    IF ~a.authenticated THEN Unauthorized
    ELSE IF a.methods /\ has_permission(a, p) THEN CallView(x, out)
    ELSE IF a.id # NoAttr /\ a.id = "admin" THEN CallView(x, out)
    ELSE Forbidden

\* guest_allowed looking at the role before the login check.
guest_allowed_role_first(a, x, out) ==
    IF a.role # NoAttr \/ (a.id # NoAttr /\ a.id = "admin")
    THEN CallView(x, out)
    ELSE IF ~a.authenticated THEN Unauthorized
    ELSE Forbidden

guest_allowed(a, x, out) ==
    IF ~a.authenticated THEN Unauthorized
    ELSE IF a.role # NoAttr \/ (a.id # NoAttr /\ a.id = "admin")
         THEN CallView(x, out)
    ELSE Forbidden

Guards == {"admin_required", "permission_required", "guest_allowed"}

Requests ==
    [guard : {"admin_required", "guest_allowed"}, permission : {None},
     args : ViewArgs]
    \cup
    [guard : {"permission_required"}, permission : Permissions,
     args : ViewArgs]

Decorated(req, a, out) ==
    CASE req.guard = "admin_required" -> admin_required(a, req.args, out)
      [] req.guard = "permission_required" ->
            permission_required(req.permission, a, req.args, out)
      [] req.guard = "guest_allowed" -> guest_allowed(a, req.args, out)

NoRequest == [guard |-> None, permission |-> None, args |-> None]
NoResponse == [kind |-> None, value |-> None, calls |-> <<>>]
AnonymousUser ==
    [authenticated |-> FALSE, role |-> NoAttr, id |-> NoAttr, methods |-> FALSE]

\* One request to a guarded view: the framework sets current_user, the
\* decorated function runs to its end.
GuardedRequest ==
    \E a \in Actors, req \in Requests, out \in ViewOutcomes :
        /\ current_user' = a
        /\ request' = req
        /\ f_outcome' = out
        /\ response' = Decorated(req, a, out)
        /\ UNCHANGED <<authVars, linkVars, provVars, clientVars, opsVars,
                       batchVars, inviteVars>>

(***************************************************************************)
(* Delegated authentication (app/services/jellyfin_auth.py).               *)
(***************************************************************************)
ServerTypes == {"jellyfin", "plex"}

\* A MediaServer table of n rows; a row's name is its position.
ServerTables ==
    UNION {[1..n -> ServerTypes] : n \in 0..MaxServers}

TableRows(types) ==
    [i \in 1..Len(types) |->
        [name |-> ToString(i), server_type |-> types[i]]]

\* What a server does with POST Users/AuthenticateByName: an HTTP answer,
\* or no answer at all (connection error, timeout).
\*   body "object": a JSON object, User.Id as given (None: no such key)
\*   body "array":  JSON, but not an object (user_data.get fails)
\*   body "text":   not JSON (response.json() fails)
Answers ==
    [status : {"200"}, body : {"object"}, Id : {"u1", "u2", None}]
    \cup [status : {"200"}, body : {"array", "text"}, Id : {None}]
    \cup [status : {"401", "500"}, body : {"text"}, Id : {None}]
    \cup [status : {"no answer"}, body : {None}, Id : {None}]

\* user_info: the dict built from the body, or None.
UserInfo(id) == [none |-> FALSE, id |-> id]
NoUserInfo == [none |-> TRUE, id |-> None]

Returned(success, user_info) ==
    [raised |-> FALSE, success |-> success, user_info |-> user_info]
Raised == [raised |-> TRUE, success |-> FALSE, user_info |-> NoUserInfo]

\* The per-server check rejecting on 401 only and accepting any other
\* answer it can read.
_authenticate_unless_401(ans) ==
    IF ans.status = "no answer" THEN Raised
    ELSE IF ans.status = "401" THEN Returned(FALSE, NoUserInfo)
    ELSE IF ans.status = "200" /\ ans.body # "object" THEN Raised
    ELSE Returned(TRUE, UserInfo(ans.Id))

_authenticate_against_server(ans) ==
    IF ans.status = "no answer" THEN Raised
    ELSE IF ans.status = "200"
         THEN IF ans.body = "object"
              THEN Returned(TRUE, UserInfo(ans.Id))
              ELSE Raised
    ELSE IF ans.status = "401" THEN Returned(FALSE, NoUserInfo)
    ELSE Returned(FALSE, NoUserInfo)

\* MediaServer.query.filter_by(server_type="jellyfin").all()
RECURSIVE FilterByType(_, _)
FilterByType(rows, t) ==
    IF rows = <<>> THEN <<>>
    ELSE IF Head(rows).server_type = t
         THEN <<Head(rows)>> \o FilterByType(Tail(rows), t)
         ELSE FilterByType(Tail(rows), t)

\* The returned tuple (success, server_name, user_info).
AuthFailure ==
    [success |-> FALSE, server_name |-> None, user_info |-> NoUserInfo]
AuthSuccess(server, user_info) ==
    [success |-> TRUE, server_name |-> server.name, user_info |-> user_info]
\* Nothing returned yet.
NoResult == AuthFailure

AuthIdle ==
    [pc |-> "idle", servers |-> <<>>, answers |-> <<>>, i |-> 0,
     log |-> <<>>, result |-> NoResult]

\* Lines 25-29: the query, and the early return when it finds nothing.
\* answers[k] is what the k-th server found does with this login attempt.
AuthStart ==
    /\ auth.pc = "idle"
    /\ LET jellyfin_servers == FilterByType(media_servers, "jellyfin")
       IN  IF jellyfin_servers = <<>>
           THEN auth' = [pc |-> "done", servers |-> <<>>,
                         answers |-> <<>>, i |-> 0, log |-> <<>>,
                         result |-> AuthFailure]
           ELSE \E answers \in [1..Len(jellyfin_servers) -> Answers] :
                  auth' = [pc |-> "loop", servers |-> jellyfin_servers,
                           answers |-> answers, i |-> 1, log |-> <<>>,
                           result |-> NoResult]
    /\ UNCHANGED <<media_servers, guardVars, linkVars, provVars, clientVars,
                   opsVars, batchVars, inviteVars>>

\* The loop without its try/except: a failing server ends the scan.
AuthLoopBodyStopsOnError(a, server, ans) ==
    LET r == _authenticate_against_server(ans)
        log == Append(a.log, server.name)
    IN  IF r.raised
        THEN [a EXCEPT !.pc = "done", !.log = log, !.result = AuthFailure]
        ELSE IF r.success
        THEN [a EXCEPT !.pc = "done", !.log = log,
                       !.result = AuthSuccess(server, r.user_info)]
        ELSE [a EXCEPT !.i = a.i + 1, !.log = log]

\* The loop remembering a success instead of returning it.
AuthLoopBodyKeepsGoing(a, server, ans) ==
    LET r == _authenticate_against_server(ans)
        log == Append(a.log, server.name)
    IN  IF ~r.raised /\ r.success
        THEN [a EXCEPT !.pc = IF a.i = Len(a.servers) THEN "done" ELSE "loop",
                       !.i = a.i + 1, !.log = log,
                       !.result = AuthSuccess(server, r.user_info)]
        ELSE [a EXCEPT !.i = a.i + 1, !.log = log]

\* Lines 32-40: one iteration of the loop. The log lists the servers that
\* were sent the credentials.
AuthLoopBody(a, server, ans) ==
    LET r == _authenticate_against_server(ans)
        log == Append(a.log, server.name)
    IN  IF r.raised
        THEN [a EXCEPT !.i = a.i + 1, !.log = log]
        ELSE IF r.success
        THEN [a EXCEPT !.pc = "done", !.log = log,
                       !.result = AuthSuccess(server, r.user_info)]
        ELSE [a EXCEPT !.i = a.i + 1, !.log = log]

AuthTryServer ==
    /\ auth.pc = "loop"
    /\ auth.i <= Len(auth.servers)
    /\ auth' = AuthLoopBody(auth, auth.servers[auth.i], auth.answers[auth.i])
    /\ UNCHANGED <<media_servers, guardVars, linkVars, provVars, clientVars,
                   opsVars, batchVars, inviteVars>>

\* Line 42: the loop ran out of servers.
AuthExhausted ==
    /\ auth.pc = "loop"
    /\ auth.i > Len(auth.servers)
    /\ auth' = [auth EXCEPT !.pc = "done", !.result = AuthFailure]
    /\ UNCHANGED <<media_servers, guardVars, linkVars, provVars, clientVars,
                   opsVars, batchVars, inviteVars>>

(***************************************************************************)
(* Identity linking (MediaClient._create_user_with_identity_linking).      *)
(***************************************************************************)
\* The Invitation table: one limited invitation, for a required username,
\* and one unlimited invitation.
Invitations ==
    <<[code |-> "LIM", unlimited |-> FALSE, required_username |-> "ann"],
      [code |-> "UNL", unlimited |-> TRUE, required_username |-> None]>>

\* user_kwargs.get("code"): the code the candidate redeemed.
Codes == {"LIM", "UNL"}
Emails == {"a@x.com", "b@x.com", "not-an-email", None}
IdentityIds == {"G1", "G2", None}

\* The user_kwargs the function reads; the other columns pass through.
UserKwargs == [code : Codes, email : Emails, identity_id : IdentityIds]

\* Candidates of every kind: with the code of a stored invitation, with a
\* code no invitation has, with no code; with or without an email.
AnyUserKwargs ==
    [code : Codes \cup {"GONE", None},
     email : {"a@x.com", "not-an-email", None},
     identity_id : {"G1", None}]

\* EMAIL_RE.fullmatch(email)
EMAIL_RE_fullmatch(email) == email \in {"a@x.com", "b@x.com"}

\* Query.first(): the first of the rows (given by position) that passed the
\* filter, 0 when none did. Rows come back in row order.
First(matching) ==
    IF matching = {} THEN 0
    ELSE CHOOSE i \in matching : \A j \in matching : i <= j

\* The invitation lookup that ignores the code.
InvitationsByAnyCode(code) == 1..Len(Invitations)

\* Invitation.query.filter_by(code=code)
InvitationsByCode(code) ==
    {i \in 1..Len(Invitations) : Invitations[i].code = code}

\* User.query.filter_by(code=code)
UsersByCode(rows, code) ==
    {i \in 1..Len(rows) : rows[i].code = code}

\* The unlimited-invitation query without its email filter.
UsersByCodeAnyEmail(rows, code, email) ==
    {i \in 1..Len(rows) : rows[i].code = code}

\* User.query.filter_by(code=code, email=email)
UsersByCodeEmail(rows, code, email) ==
    {i \in 1..Len(rows) : rows[i].code = code /\ rows[i].email = email}

\* Lines 172-173, 181-182: adopt the found row's identity, if it has one.
Adopt(rows, u, kw) ==
    IF u # 0 /\ rows[u].identity_id # None
    THEN rows[u].identity_id
    ELSE kw.identity_id

\* The linking with the email rule applied to every invitation.
ResolveIdentityByEmailOnly(rows, kw) ==
    IF kw.code = None THEN kw.identity_id
    ELSE
    LET inv == First(InvitationsByCode(kw.code))
    IN  IF inv = 0 THEN kw.identity_id
        ELSE IF kw.email # None /\ EMAIL_RE_fullmatch(kw.email)
        THEN Adopt(rows,
                   First(UsersByCodeEmail(rows, kw.code, kw.email)), kw)
        ELSE kw.identity_id

\* Lines 158-182: the identity_id the new row gets, given the rows the
\* session sees.
ResolveIdentity(rows, kw) ==
    IF kw.code = None THEN kw.identity_id
    ELSE
    LET inv == First(InvitationsByCode(kw.code))
    IN  IF inv = 0 THEN kw.identity_id
        ELSE IF ~Invitations[inv].unlimited
        THEN Adopt(rows, First(UsersByCode(rows, kw.code)), kw)
        ELSE IF kw.email # None /\ EMAIL_RE_fullmatch(kw.email)
        THEN Adopt(rows,
                   First(UsersByCodeEmail(rows, kw.code, kw.email)), kw)
        ELSE kw.identity_id

\* The rows a query of this session sees: the committed ones, then the ones
\* the session flushed for the query.
Visible == users \o session

RECURSIVE Remove(_, _)
Remove(rows, gone) ==
    IF rows = <<>> THEN <<>>
    ELSE LET rest == Remove(Tail(rows), {i - 1 : i \in gone \ {1}})
         IN  IF 1 \in gone THEN rest ELSE <<Head(rows)>> \o rest

\* cleanup_expired_user_by_email(email): the stored rows with this email
\* that have expired are deleted; which of them have is up to the clock.
CleanupChoices(rows, email) ==
    SUBSET {i \in 1..Len(rows) : rows[i].email = email}

\* The cleanup run only for an email that passes EMAIL_RE.
CleanupEmailsIfValid(kw) ==
    IF kw.email # None /\ EMAIL_RE_fullmatch(kw.email)
    THEN <<kw.email>> ELSE <<>>

\* Lines 185-188: the emails cleanup_expired_user_by_email is called with.
CleanupEmails(kw) == IF kw.email # None THEN <<kw.email>> ELSE <<>>

\* The call that commits the new row itself.
CreateUserWithIdentityLinkingAndCommit(candidates) ==
    /\ Len(users) + Len(session) < MaxUsers
    /\ \E kw \in candidates :
        LET identity_id == ResolveIdentity(Visible, kw)
            new_user == [code |-> kw.code, email |-> kw.email,
                         identity_id |-> identity_id]
            cleanup == CleanupEmails(kw)
        IN  /\ \E gone \in IF cleanup = <<>> THEN {{}}
                            ELSE CleanupChoices(users, cleanup[1]) :
                   users' = (Remove(users, gone) \o session) \o <<new_user>>
            /\ session' = <<>>
            /\ link' = [user_kwargs |-> kw, new_user |-> new_user,
                        invitation |-> First(InvitationsByCode(kw.code)),
                        cleanup |-> cleanup,
                        calls |-> [k \in 1..Len(cleanup) |->
                                      "cleanup_expired_user_by_email"]
                                  \o <<"User", "db.session.add",
                                       "db.session.commit">>]
    /\ UNCHANGED <<form, sessions, guardVars, authVars, provVars,
                   clientVars, opsVars, batchVars, inviteVars>>

\* Lines 140-192. The cleanup deletes stored rows; the new row is made
\* after it, added to the session and not committed. calls lists what the
\* function called after the linking, in order.
CreateUserWithIdentityLinking(candidates) ==
    /\ Len(users) + Len(session) < MaxUsers
    /\ \E kw \in candidates :
        LET identity_id == ResolveIdentity(Visible, kw)
            new_user == [code |-> kw.code, email |-> kw.email,
                         identity_id |-> identity_id]
            cleanup == CleanupEmails(kw)
        IN  /\ \E gone \in IF cleanup = <<>> THEN {{}}
                            ELSE CleanupChoices(users, cleanup[1]) :
                   users' = Remove(users, gone)
            /\ session' = Append(session, new_user)
            /\ link' = [user_kwargs |-> kw, new_user |-> new_user,
                        invitation |-> First(InvitationsByCode(kw.code)),
                        cleanup |-> cleanup,
                        calls |-> [k \in 1..Len(cleanup) |->
                                      "cleanup_expired_user_by_email"]
                                  \o <<"User", "db.session.add">>]
    /\ UNCHANGED <<form, sessions, guardVars, authVars, provVars,
                   clientVars, opsVars, batchVars, inviteVars>>

NoLink ==
    [user_kwargs |-> [code |-> None, email |-> None, identity_id |-> None],
     new_user |-> [code |-> None, email |-> None, identity_id |-> None],
     invitation |-> 0, cleanup |-> <<>>, calls |-> <<>>]

\* The caller's db.session.commit() after the call.
Commit ==
    /\ session # <<>>
    /\ users' = users \o session
    /\ session' = <<>>
    /\ link' = NoLink
    /\ UNCHANGED <<form, sessions, guardVars, authVars, provVars,
                   clientVars, opsVars, batchVars, inviteVars>>

(***************************************************************************)
(* Redemptions handled in parallel: one worker per request, each with its  *)
(* own db.session; a worker's rows reach the table when it commits.        *)
(***************************************************************************)
Workers == {"w1", "w2"}

NoSessions == [w \in Workers |-> <<>>]

\* The rows staged in all the workers' sessions.
Staged(ss) == Len(ss["w1"]) + Len(ss["w2"])

\* Lines 140-192 run by worker w: the lookup sees the committed rows and
\* the worker's own session, not the rows other workers have staged.
RedeemCreate(w, candidates) ==
    /\ sessions[w] = <<>>
    /\ Len(users) + Staged(sessions) < MaxUsers
    /\ \E kw \in candidates :
        LET identity_id == ResolveIdentity(users \o sessions[w], kw)
            new_user == [code |-> kw.code, email |-> kw.email,
                         identity_id |-> identity_id]
            cleanup == CleanupEmails(kw)
        IN  /\ \E gone \in IF cleanup = <<>> THEN {{}}
                            ELSE CleanupChoices(users, cleanup[1]) :
                   users' = Remove(users, gone)
            /\ sessions' = [sessions EXCEPT ![w] = Append(@, new_user)]
    /\ UNCHANGED <<session, link, form>>
    /\ UNCHANGED <<guardVars, authVars, provVars, clientVars, opsVars,
                   batchVars, inviteVars>>

\* Worker w's caller commits: db.session.commit().
RedeemCommit(w) ==
    /\ sessions[w] # <<>>
    /\ users' = users \o sessions[w]
    /\ sessions' = [sessions EXCEPT ![w] = <<>>]
    /\ UNCHANGED <<session, link, form>>
    /\ UNCHANGED <<guardVars, authVars, provVars, clientVars, opsVars,
                   batchVars, inviteVars>>

(***************************************************************************)
(* The join form (app/forms/join.py).                                      *)
(***************************************************************************)
\* The codes a visitor can submit: a stored code as stored, a stored code
\* in another letter case, a code no invitation has, none.
FormCodes == {"LIM", "lim", "UNL", "GONE", None}

\* str.lower() and SQL lower() on the codes above.
lower(code) ==
    CASE code = "LIM" -> "lim"
      [] code = "UNL" -> "unl"
      [] code = "GONE" -> "gone"
      [] OTHER -> code

\* Invitation.query.filter(func.lower(Invitation.code) == code.lower())
InvitationsByLowerCode(code) ==
    {i \in 1..Len(Invitations) : lower(Invitations[i].code) = lower(code)}

\* Lines 39-53: the invitation the form finds for its code (0: none) and
\* whether it raises ValidationError for the username.
validate_username(code, username) ==
    IF code = None THEN [invitation |-> 0, error |-> FALSE]
    ELSE LET invitation == First(InvitationsByLowerCode(code))
         IN  [invitation |-> invitation,
              error |-> /\ invitation # 0
                        /\ Invitations[invitation].required_username # None
                        /\ username
                               # Invitations[invitation].required_username]

NoForm ==
    [called |-> FALSE, code |-> None, username |-> None,
     invitation |-> 0, error |-> FALSE]

ValidateUsername ==
    /\ \E code \in FormCodes, username \in {"ann", "bob"} :
           LET v == validate_username(code, username)
           IN  form' = [called |-> TRUE, code |-> code, username |-> username,
                        invitation |-> v.invitation, error |-> v.error]
    /\ UNCHANGED <<users, session, link, sessions>>
    /\ UNCHANGED <<guardVars, authVars, provVars, clientVars, opsVars,
                   batchVars, inviteVars>>

(***************************************************************************)
(* Account provisioning after a delegated login.                           *)
(***************************************************************************)
Usernames == {"ann", "bob"}

\* The remote user ids a Jellyfin answer carries in User.Id, None when the
\* answer has none.
RemoteIds == {"u1", "u2", None}

\* The guest account created without its link to the server.
create_guest_account_unlinked(username, jellyfin_server_name, user_info) ==
    [username |-> username, role |-> "guest",
     jellyfin_server |-> None, jellyfin_user_id |-> user_info.id]

\* Lines 128-133: the AdminAccount row create_guest_account_from_jellyfin
\* adds and commits; user_info.get("id") is None when the answer had no id.
create_guest_account_from_jellyfin(username, jellyfin_server_name, user_info) ==
    [username |-> username, role |-> "guest",
     jellyfin_server |-> jellyfin_server_name,
     jellyfin_user_id |-> user_info.id]

\* AdminAccount.query.filter_by(username=username)
AccountsByUsername(rows, username) ==
    {i \in 1..Len(rows) : rows[i].username = username}

\* An account made by direct signup, with no remote linkage.
LocalAccount(username, role) ==
    [username |-> username, role |-> role,
     jellyfin_server |-> None, jellyfin_user_id |-> None]

\* The successful results authenticate_jellyfin_user can return with this
\* MediaServer table: the name of a Jellyfin server and the user info built
\* from its answer.
SuccessfulResults ==
    {AuthSuccess(media_servers[k], UserInfo(id)) :
        k \in {i \in 1..Len(media_servers) :
                  media_servers[i].server_type = "jellyfin"},
        id \in RemoteIds}

NoLogin == [username |-> None, server_name |-> None, created |-> FALSE]

\* The login route after authenticate_jellyfin_user returned success: the
\* account with the username is looked up and reused; when there is none,
\* create_guest_account_from_jellyfin makes it (add and commit).
DelegatedLogin ==
    \E username \in Usernames, r \in SuccessfulResults :
        LET found == First(AccountsByUsername(accounts, username))
        IN  /\ accounts' =
                   IF found = 0
                   THEN Append(accounts,
                               create_guest_account_from_jellyfin(
                                   username, r.server_name, r.user_info))
                   ELSE accounts
            /\ login' = [username |-> username,
                         server_name |-> r.server_name,
                         created |-> found = 0]
            /\ UNCHANGED <<logins, guardVars, authVars, linkVars, clientVars,
                           opsVars, batchVars, inviteVars>>

(***************************************************************************)
(* Delegated logins handled in parallel: one worker per request.           *)
(***************************************************************************)
NoLogins ==
    [w \in Workers |->
        [pc |-> "idle", username |-> None, server_name |-> None,
         user_info |-> NoUserInfo]]

\* The unique constraint on AdminAccount.username: a commit that would
\* store a second row with a username fails with IntegrityError.
IntegrityError(rows, row) ==
    \E i \in 1..Len(rows) : rows[i].username = row.username

\* The login route of worker w after authenticate_jellyfin_user returned
\* success: the existence check.
LoginCheck(w) ==
    /\ logins[w].pc = "idle"
    /\ \E username \in Usernames, r \in SuccessfulResults :
           LET found == First(AccountsByUsername(accounts, username))
           IN  logins' = [logins EXCEPT ![w] =
                   [pc |-> IF found = 0 THEN "create" ELSE "reused",
                    username |-> username, server_name |-> r.server_name,
                    user_info |-> r.user_info]]
    /\ UNCHANGED <<accounts, login>>
    /\ UNCHANGED <<guardVars, authVars, linkVars, clientVars, opsVars,
                   batchVars, inviteVars>>

\* The creation storing its row whatever the table holds.
LoginCreateUnconstrained(w) ==
    /\ logins[w].pc = "create"
    /\ accounts' = Append(accounts,
                          create_guest_account_from_jellyfin(
                              logins[w].username, logins[w].server_name,
                              logins[w].user_info))
    /\ logins' = [logins EXCEPT ![w].pc = "created"]
    /\ UNCHANGED login
    /\ UNCHANGED <<guardVars, authVars, linkVars, clientVars, opsVars,
                   batchVars, inviteVars>>

\* Lines 113-145 run by worker w: the row is added and committed; the
\* commit raises when the table no longer accepts the username.
LoginCreate(w) ==
    /\ logins[w].pc = "create"
    /\ LET account == create_guest_account_from_jellyfin(
                          logins[w].username, logins[w].server_name,
                          logins[w].user_info)
       IN  IF IntegrityError(accounts, account)
           THEN /\ accounts' = accounts
                /\ logins' = [logins EXCEPT ![w].pc = "raised"]
           ELSE /\ accounts' = Append(accounts, account)
                /\ logins' = [logins EXCEPT ![w].pc = "created"]
    /\ UNCHANGED login
    /\ UNCHANGED <<guardVars, authVars, linkVars, clientVars, opsVars,
                   batchVars, inviteVars>>

(***************************************************************************)
(* Media client registry and construction (client_base.py, lines 31-118).  *)
(***************************************************************************)
\* The MediaClient subclasses of the program.
Classes == {"JellyfinClient", "PlexClient"}

\* The registry and the class attributes before any registration:
\* CLIENTS = {} and no class has a _server_type (getattr gives None).
EmptyRegistry ==
    [CLIENTS |-> [t \in ServerTypes |-> None],
     _server_type |-> [c \in Classes |-> None]]

\* A registration that keeps the class already stored under the name.
register_media_client_keep_first(reg, name, cls) ==
    [CLIENTS |-> IF reg.CLIENTS[name] = None
                 THEN [reg.CLIENTS EXCEPT ![name] = cls]
                 ELSE reg.CLIENTS,
     _server_type |-> [reg._server_type EXCEPT ![cls] = name]]

\* Lines 42-45: the decorator sets cls._server_type and CLIENTS[name].
register_media_client(reg, name, cls) ==
    [CLIENTS |-> [reg.CLIENTS EXCEPT ![name] = cls],
     _server_type |-> [reg._server_type EXCEPT ![cls] = name]]

\* @register_media_client(name) applied to cls.
Register ==
    /\ Len(registrations) < MaxRegistrations
    /\ \E name \in ServerTypes, cls \in Classes :
        LET reg == register_media_client(
                       [CLIENTS |-> CLIENTS, _server_type |-> _server_type],
                       name, cls)
        IN  /\ CLIENTS' = reg.CLIENTS
            /\ _server_type' = reg._server_type
            /\ registrations' =
                   Append(registrations, [name |-> name, cls |-> cls])
    /\ UNCHANGED <<settings, instance, proxy>>
    /\ UNCHANGED <<guardVars, authVars, linkVars, provVars, opsVars,
                   batchVars, inviteVars>>

\* The columns of a MediaServer row the client reads. A row's name is its
\* position in the table, so it stands for the row's id, and its url and
\* api_key are told apart by it.
RowId(row) == row.name
RowUrl(row) == "url-" \o row.name
RowApiKey(row) == "key-" \o row.name

\* media_server=None, and the attributes an instance does not carry.
NoRow == [name |-> None, server_type |-> None]

\* Lines 113-118: _attach_server_row.
_attach_server_row(self, row) ==
    [self EXCEPT !.server_row = row, !.server_id = RowId(row),
                 !.url = RowUrl(row), !.token = RowApiKey(row)]

\* A fresh instance: no attribute set, no table read.
NewInstance(cls) ==
    [cls |-> cls, server_row |-> NoRow, server_id |-> NoAttr,
     url |-> NoAttr, token |-> NoAttr, queries |-> <<>>]

SettingsKeys == {"server_url", "api_key"}

\* The Settings tables: each legacy key holds its value or has no row.
SettingsTables ==
    {[k \in SettingsKeys |-> IF k \in present THEN "legacy-" \o k ELSE None] :
        present \in SUBSET SettingsKeys}

\* The constructor looking the table up before the explicit row.
MediaClient_init_table_first(cls, media_server, url_key, token_key) ==
    LET self == NewInstance(cls)
        rows == FilterByType(media_servers, _server_type[cls])
    IN  IF _server_type[cls] # None /\ rows # <<>>
        THEN _attach_server_row(
                 [self EXCEPT !.queries = <<"MediaServer">>], Head(rows))
        ELSE IF media_server # NoRow
        THEN _attach_server_row(self, media_server)
        ELSE [self EXCEPT !.url = settings[url_key],
                          !.token = settings[token_key],
                          !.queries = <<"Settings", "Settings">>]

\* Lines 73-107: MediaClient.__init__. queries lists the tables read.
MediaClient_init(cls, media_server, url_key, token_key) ==
    LET self == NewInstance(cls)
        server_type == _server_type[cls]
        rows == FilterByType(media_servers, server_type)
    IN  IF media_server # NoRow
        THEN _attach_server_row(self, media_server)
        ELSE IF server_type # None /\ rows # <<>>
        THEN _attach_server_row(
                 [self EXCEPT !.queries = <<"MediaServer">>], Head(rows))
        ELSE [self EXCEPT
                 !.url = settings[url_key],
                 !.token = settings[token_key],
                 !.queries = IF server_type # None
                             THEN <<"MediaServer", "Settings", "Settings">>
                             ELSE <<"Settings", "Settings">>]

\* The row a caller passes as media_server: a row of the table, or none.
ExplicitRows ==
    {NoRow} \cup {media_servers[i] : i \in 1..Len(media_servers)}

NoInstance == [media_server |-> NoRow, self |-> NewInstance(None)]

\* cls(media_server) with the default url_key and token_key; the argument
\* is kept beside the object made.
Construct ==
    /\ \E cls \in Classes, media_server \in ExplicitRows :
           instance' = [media_server |-> media_server,
                        self |-> MediaClient_init(cls, media_server,
                                                  "server_url", "api_key")]
    /\ UNCHANGED <<registryVars, settings, proxy>>
    /\ UNCHANGED <<guardVars, authVars, linkVars, provVars, opsVars,
                   batchVars, inviteVars>>

(***************************************************************************)
(* Image proxy URLs (client_base.py, lines 120-138).                       *)
(***************************************************************************)
ImageUrls == {"http://media/img/1", "http://media/img/2"}

\* ImageProxyService.generate_token(image_url, server_id=...) returns an
\* opaque string; some tokens hold characters a query string must escape.
Tokens == {"tok1", "t+k/2="}

\* urllib.parse.quote_plus on the tokens above.
quote_plus(token) ==
    CASE token = "t+k/2=" -> "t%2Bk%2F2%3D"
      [] OTHER -> token

\* Lines 120-138. Reading self.server_id on an instance that never got the
\* attribute raises AttributeError before a token is made.
generate_image_proxy_url(self, image_url, token) ==
    IF self.server_id = NoAttr
    THEN [raised |-> TRUE, path |-> None, token |-> None,
          server_id |-> NoAttr]
    ELSE [raised |-> FALSE, path |-> "/image-proxy",
          token |-> quote_plus(token), server_id |-> self.server_id]

NoProxy ==
    [called |-> FALSE, image_url |-> None,
     result |-> [raised |-> FALSE, path |-> None, token |-> None,
                 server_id |-> NoAttr]]

\* client.generate_image_proxy_url(image_url) on the instance constructed
\* last.
GenerateImageProxyUrl ==
    /\ instance # NoInstance
    /\ \E image_url \in ImageUrls, token \in Tokens :
           proxy' = [called |-> TRUE, image_url |-> image_url,
                     result |-> generate_image_proxy_url(
                                    instance.self, image_url, token)]
    /\ UNCHANGED <<registryVars, settings, instance>>
    /\ UNCHANGED <<guardVars, authVars, linkVars, provVars, opsVars,
                   batchVars, inviteVars>>

(***************************************************************************)
(* Operations of a media client (client_base.py, lines 370-464).           *)
(***************************************************************************)
\* A key the dict does not have (dict.get returns its default).
NoKey == "<no key>"

\* What the subclass's statistics() does when called: it raises, or it
\* returns a dict that has or lacks the keys the defaults read.
StatisticsOutcomes ==
    [raised : {TRUE}, total_users : {NoKey}, version : {NoKey}]
    \cup [raised : {FALSE}, total_users : {NoKey, "0", "5"},
          version : {NoKey, "10.9"}]

\* dict.get(key, default)
Get(value, default) == IF value = NoKey THEN default ELSE value

\* A client: which of the two lightweight methods its class overrides, and
\* what its statistics() does.
ClientKinds ==
    [overrides_user_count : BOOLEAN, overrides_server_info : BOOLEAN,
     statistics : StatisticsOutcomes]

\* Lines 370-384: get_user_count. calls lists the methods of the client
\* that ran; an override asks the server for the count and calls nothing.
get_user_count(self) ==
    IF self.overrides_user_count
    THEN [value |-> "5", calls |-> <<>>]
    ELSE [value |-> IF self.statistics.raised THEN "0"
                    ELSE Get(self.statistics.total_users, "0"),
          calls |-> <<"statistics">>]

\* Lines 386-412: get_server_info.
get_server_info(self) ==
    IF self.overrides_server_info
    THEN [value |-> [version |-> "10.9"], calls |-> <<>>]
    ELSE [value |-> [version |-> IF self.statistics.raised THEN "Unknown"
                                 ELSE Get(self.statistics.version, "Unknown")],
          calls |-> <<"statistics">>]

\* Lines 414-432: get_readonly_statistics.
get_readonly_statistics(self) ==
    LET total_users == get_user_count(self)
        server_stats == get_server_info(self)
    IN  [user_stats |-> [total_users |-> total_users.value,
                         active_sessions |-> "0"],
         server_stats |-> server_stats.value,
         calls |-> total_users.calls \o server_stats.calls]

NoStats ==
    [called |-> FALSE,
     self |-> [overrides_user_count |-> FALSE, overrides_server_info |-> FALSE,
               statistics |-> [raised |-> TRUE, total_users |-> NoKey,
                               version |-> NoKey]],
     result |-> [user_stats |-> [total_users |-> "0", active_sessions |-> "0"],
                 server_stats |-> [version |-> "Unknown"], calls |-> <<>>]]

\* client.get_readonly_statistics()
GetReadonlyStatistics ==
    /\ \E self \in ClientKinds :
           stats' = [called |-> TRUE, self |-> self,
                     result |-> get_readonly_statistics(self)]
    /\ UNCHANGED <<joined, rest_call>>
    /\ UNCHANGED <<guardVars, authVars, linkVars, provVars, clientVars,
                   batchVars, inviteVars>>

\* What _do_join does: it raises, or it returns (success, message).
Messages == {"User created", "Username taken"}
DoJoinOutcomes ==
    [raised : {TRUE}, success : {FALSE}, message : {None}]
    \cup [raised : {FALSE}, success : BOOLEAN, message : Messages]

\* What notify does when called.
NotifyOutcomes == {"sent", "raises"}

\* join with the notification outside any try.
join_strict(username, do_join, notify) ==
    IF do_join.raised
    THEN [raised |-> TRUE, success |-> FALSE, message |-> None,
          notified |-> <<>>]
    ELSE IF do_join.success
    THEN [raised |-> notify = "raises", success |-> do_join.success,
          message |-> IF notify = "raises" THEN None ELSE do_join.message,
          notified |-> <<username>>]
    ELSE [raised |-> FALSE, success |-> do_join.success,
          message |-> do_join.message, notified |-> <<>>]

\* Lines 434-464: join. notified lists the usernames notify was called
\* for; an exception of _do_join leaves join before anything else runs.
join(username, do_join, notify) ==
    IF do_join.raised
    THEN [raised |-> TRUE, success |-> FALSE, message |-> None,
          notified |-> <<>>]
    ELSE [raised |-> FALSE, success |-> do_join.success,
          message |-> do_join.message,
          notified |-> IF do_join.success THEN <<username>> ELSE <<>>]

NoJoin ==
    [called |-> FALSE, username |-> None,
     do_join |-> [raised |-> TRUE, success |-> FALSE, message |-> None],
     notify |-> "sent",
     result |-> [raised |-> TRUE, success |-> FALSE, message |-> None,
                 notified |-> <<>>]]

\* client.join(username, password, confirm, code)
Join ==
    /\ \E username \in Usernames, do_join \in DoJoinOutcomes,
          notify \in NotifyOutcomes :
           joined' = [called |-> TRUE, username |-> username,
                      do_join |-> do_join, notify |-> notify,
                      result |-> join(username, do_join, notify)]
    /\ UNCHANGED <<stats, rest_call>>
    /\ UNCHANGED <<guardVars, authVars, linkVars, provVars, clientVars,
                   batchVars, inviteVars>>

(***************************************************************************)
(* The REST helper (client_base.py, lines 554-572).                        *)
(***************************************************************************)
\* What requests.request does: it fails (no connection, timeout), or it
\* returns the server's response with this status. requests follows a
\* redirect that names a Location; 304 is a 3xx answer it hands back.
HttpStatuses == {101, 200, 204, 304, 404, 500}
RequestOutcomes ==
    [failed : {TRUE}, status : {0}]
    \cup [failed : {FALSE}, status : HttpStatuses]

\* self.url of the client: a configured base URL, or None.
ClientUrls == {"http://media", None}

\* Response.raise_for_status(): HTTPError for a 4xx or 5xx status only.
raise_for_status(status) == 400 <= status /\ status < 600

\* Lines 554-572: _request. It raises (ValueError without a URL, the
\* exception of requests.request or of raise_for_status re-raised) or
\* returns the response; sent tells whether the request went out.
_request(url, outcome) ==
    IF url = None
    THEN [raised |-> TRUE, status |-> 0, sent |-> FALSE]
    ELSE IF outcome.failed
    THEN [raised |-> TRUE, status |-> 0, sent |-> TRUE]
    ELSE IF raise_for_status(outcome.status)
    THEN [raised |-> TRUE, status |-> 0, sent |-> TRUE]
    ELSE [raised |-> FALSE, status |-> outcome.status, sent |-> TRUE]

NoRest ==
    [called |-> FALSE, url |-> None,
     outcome |-> [failed |-> TRUE, status |-> 0],
     result |-> [raised |-> TRUE, status |-> 0, sent |-> FALSE]]

\* client._request(method, path)
Request ==
    /\ \E url \in ClientUrls, outcome \in RequestOutcomes :
           rest_call' = [called |-> TRUE, url |-> url, outcome |-> outcome,
                         result |-> _request(url, outcome)]
    /\ UNCHANGED <<stats, joined>>
    /\ UNCHANGED <<guardVars, authVars, linkVars, provVars, clientVars,
                   batchVars, inviteVars>>

(***************************************************************************)
(* Metadata caching (client_base.py, lines 251-296).                       *)
(***************************************************************************)
\* What happens for one user of the batch: the user has no identifier
\* (no token), get_user_details raises, update_standardized_metadata
\* raises, or both succeed.
UserKinds == {"no identifier", "details fail", "update fails", "ok"}

\* The users lists of at most MaxBatch users.
Batches == UNION {[1..n -> UserKinds] : n \in 0..MaxBatch}

\* What db.session.commit() does when called.
CommitOutcomes == {"ok", "fails"}

BatchIdle ==
    [pc |-> "idle", users |-> <<>>, commit |-> "ok", i |-> 0,
     cached_count |-> 0, calls |-> <<>>, raised |-> FALSE]

\* A call made on behalf of user k of the batch (k = 0: of the batch).
Call(op, k) == [op |-> op, user |-> k]

\* Lines 260-263: the call, with its early return for an empty list.
BatchStart ==
    /\ batch.pc = "idle"
    /\ \E given \in Batches, commit \in CommitOutcomes :
           batch' = [BatchIdle EXCEPT
                        !.pc = IF given = <<>> THEN "returned" ELSE "loop",
                        !.users = given, !.commit = commit, !.i = 1]
    /\ UNCHANGED <<guardVars, authVars, linkVars, provVars, clientVars,
                   opsVars, inviteVars>>

\* The loop body without its try/except: a failure leaves the call.
BatchLoopBodyUnguarded(b, k, kind) ==
    IF kind = "no identifier" THEN [b EXCEPT !.i = k + 1]
    ELSE IF kind = "details fail"
    THEN [b EXCEPT !.pc = "returned", !.raised = TRUE,
                   !.calls = Append(b.calls, Call("get_user_details", k))]
    ELSE IF kind = "update fails"
    THEN [b EXCEPT !.pc = "returned", !.raised = TRUE,
                   !.calls = b.calls
                       \o <<Call("get_user_details", k),
                            Call("update_standardized_metadata", k)>>]
    ELSE [b EXCEPT !.i = k + 1, !.cached_count = b.cached_count + 1,
                   !.calls = b.calls
                       \o <<Call("get_user_details", k),
                            Call("update_standardized_metadata", k)>>]

\* Lines 265-281: one iteration of the loop, for user k of the batch.
BatchLoopBody(b, k, kind) ==
    IF kind = "no identifier" THEN [b EXCEPT !.i = k + 1]
    ELSE IF kind = "details fail"
    THEN [b EXCEPT !.i = k + 1,
                   !.calls = Append(b.calls, Call("get_user_details", k))]
    ELSE IF kind = "update fails"
    THEN [b EXCEPT !.i = k + 1,
                   !.calls = b.calls
                       \o <<Call("get_user_details", k),
                            Call("update_standardized_metadata", k)>>]
    ELSE [b EXCEPT !.i = k + 1, !.cached_count = b.cached_count + 1,
                   !.calls = b.calls
                       \o <<Call("get_user_details", k),
                            Call("update_standardized_metadata", k)>>]

BatchUser ==
    /\ batch.pc = "loop"
    /\ batch.i <= Len(batch.users)
    /\ batch' = BatchLoopBody(batch, batch.i, batch.users[batch.i])
    /\ UNCHANGED <<guardVars, authVars, linkVars, provVars, clientVars,
                   opsVars, inviteVars>>

\* Lines 283-294: the commit, when a user was updated, and the rollback
\* when the commit fails.
BatchEnd(b) ==
    IF b.cached_count > 0
    THEN [b EXCEPT !.pc = "returned",
                   !.calls = b.calls
                       \o IF b.commit = "ok"
                          THEN <<Call("commit", 0)>>
                          ELSE <<Call("commit", 0), Call("rollback", 0)>>]
    ELSE [b EXCEPT !.pc = "returned"]

BatchCommit ==
    /\ batch.pc = "loop"
    /\ batch.i > Len(batch.users)
    /\ batch' = BatchEnd(batch)
    /\ UNCHANGED <<guardVars, authVars, linkVars, provVars, clientVars,
                   opsVars, inviteVars>>

(***************************************************************************)
(* Invitation ownership (the /invite and /invite/table routes).            *)
(***************************************************************************)
\* The accounts that create and look at invitations, and their roles.
InviteActors == {"guest1", "guest2", "admin1"}
RoleOf(actor) == IF actor = "admin1" THEN "admin" ELSE "guest"

InviteCodes == {ToString(n) : n \in 1..MaxInvites}

NoInvites == [c \in InviteCodes |-> None]

\* POST /invite: the actor creates an invitation with a code not in use.
CreateInvite ==
    /\ \E actor \in InviteActors, code \in InviteCodes :
        /\ invites[code] = None
        /\ invites' = [invites EXCEPT ![code] = actor]
    /\ UNCHANGED table_view
    /\ UNCHANGED <<guardVars, authVars, linkVars, provVars, clientVars,
                   opsVars, batchVars>>

\* A listing that shows every invitation to everyone.
VisibleToAnyone(rows, actor) == {c \in InviteCodes : rows[c] # None}

\* The invitations the actor sees: a guest its own, an admin all.
VisibleTo(rows, actor) ==
    {c \in InviteCodes :
        /\ rows[c] # None
        /\ RoleOf(actor) = "admin" \/ rows[c] = actor}

\* The table after the actor asked to delete the code: the invitation
\* goes only if the actor may see it.
Deleted(rows, actor, code) ==
    IF code \in VisibleTo(rows, actor)
    THEN [rows EXCEPT ![code] = None]
    ELSE rows

NoTableView == [actor |-> None, delete |-> None, listing |-> {}]

\* POST /invite/table[?delete=code]: the deletion asked for, if any, and
\* then the listing.
InviteTable ==
    /\ \E actor \in InviteActors, delete \in InviteCodes \cup {None} :
        /\ invites' = IF delete = None THEN invites
                      ELSE Deleted(invites, actor, delete)
        /\ table_view' = [actor |-> actor, delete |-> delete,
                          listing |-> VisibleTo(invites', actor)]
    /\ UNCHANGED <<guardVars, authVars, linkVars, provVars, clientVars,
                   opsVars, batchVars>>

(***************************************************************************)
(* Initial states and specifications.                                      *)
(***************************************************************************)
\* No request was served yet.
GuardsIdle ==
    /\ current_user = AnonymousUser
    /\ request = NoRequest
    /\ f_outcome = None
    /\ response = NoResponse

\* No authentication was started; the MediaServer table is as configured.
AuthNotStarted(tables) ==
    /\ media_servers \in {TableRows(t) : t \in tables}
    /\ auth = AuthIdle

LinkingIdle ==
    /\ users = <<>>
    /\ session = <<>>
    /\ link = NoLink
    /\ form = NoForm
    /\ sessions = NoSessions

\* Nobody logged in through a server yet; the accounts are the ones made
\* by direct signup.
NoDelegatedLogin(tables) ==
    /\ accounts \in tables
    /\ login = NoLogin
    /\ logins = NoLogins

\* The AdminAccount tables before any delegated login.
LocalTables ==
    {<<>>} \cup {<<LocalAccount(u, role)>> : u \in Usernames, role \in Roles}

\* Nothing registered, nothing constructed.
ClientsIdle(tables) ==
    /\ CLIENTS = EmptyRegistry.CLIENTS
    /\ _server_type = EmptyRegistry._server_type
    /\ registrations = <<>>
    /\ settings \in tables
    /\ instance = NoInstance
    /\ proxy = NoProxy

NoSettings == {[k \in SettingsKeys |-> None]}

\* No operation of a client was called.
OpsIdle ==
    /\ stats = NoStats
    /\ joined = NoJoin
    /\ rest_call = NoRest
    /\ batch = BatchIdle
    /\ invites = NoInvites
    /\ table_view = NoTableView

GuardInit ==
    /\ GuardsIdle /\ LinkingIdle
    /\ AuthNotStarted({<<>>})
    /\ NoDelegatedLogin({<<>>})
    /\ ClientsIdle(NoSettings) /\ OpsIdle
GuardNext == GuardedRequest
GuardSpec == GuardInit /\ [][GuardNext]_vars

AuthInit ==
    /\ GuardsIdle /\ LinkingIdle
    /\ AuthNotStarted(ServerTables)
    /\ NoDelegatedLogin({<<>>})
    /\ ClientsIdle(NoSettings) /\ OpsIdle
AuthNext == AuthStart \/ AuthTryServer \/ AuthExhausted
AuthSpec == AuthInit /\ [][AuthNext]_vars

LinkInit ==
    /\ GuardsIdle /\ LinkingIdle
    /\ AuthNotStarted({<<>>})
    /\ NoDelegatedLogin({<<>>})
    /\ ClientsIdle(NoSettings) /\ OpsIdle
LinkNext == CreateUserWithIdentityLinking(UserKwargs) \/ Commit
LinkSpec == LinkInit /\ [][LinkNext]_vars

\* Identity linking for candidates of every kind.
LinkAnyInit == LinkInit
LinkAnyNext == CreateUserWithIdentityLinking(AnyUserKwargs) \/ Commit
LinkAnySpec == LinkAnyInit /\ [][LinkAnyNext]_vars

\* A visitor joining with an invitation code typed in either letter case:
\* the form is validated, the user is created on the server and linked.
JoinCandidates ==
    [code : {"LIM", "lim"}, email : {None}, identity_id : {"G1", "G2"}]
JoinInit == LinkInit
JoinNext ==
    \/ ValidateUsername
    \/ CreateUserWithIdentityLinking(JoinCandidates)
    \/ Commit
JoinSpec == JoinInit /\ [][JoinNext]_vars

\* Redemptions of the limited invitation by candidates that each come with
\* an identity group, handled by two workers in parallel.
RaceCandidates ==
    [code : {"LIM"}, email : {"a@x.com", None}, identity_id : {"G1", "G2"}]
RaceInit == LinkInit
RaceNext ==
    \E w \in Workers : RedeemCreate(w, RaceCandidates) \/ RedeemCommit(w)
RaceSpec == RaceInit /\ [][RaceNext]_vars

\* Delegated logins, one after the other, with any MediaServer table.
ProvisionInit ==
    /\ GuardsIdle /\ LinkingIdle
    /\ AuthNotStarted(ServerTables)
    /\ NoDelegatedLogin(LocalTables)
    /\ ClientsIdle(NoSettings) /\ OpsIdle
ProvisionNext == DelegatedLogin
ProvisionSpec == ProvisionInit /\ [][ProvisionNext]_vars

\* Two delegated logins handled in parallel, with any MediaServer table.
LoginRaceInit == ProvisionInit
LoginRaceNext == \E w \in Workers : LoginCheck(w) \/ LoginCreate(w)
LoginRaceSpec == LoginRaceInit /\ [][LoginRaceNext]_vars

\* Registrations and constructions, with any MediaServer and Settings
\* tables.
ClientInit ==
    /\ GuardsIdle /\ LinkingIdle
    /\ AuthNotStarted(ServerTables)
    /\ NoDelegatedLogin({<<>>})
    /\ ClientsIdle(SettingsTables) /\ OpsIdle
ClientNext == Register \/ Construct
ClientSpec == ClientInit /\ [][ClientNext]_vars

\* Image proxy URLs asked of clients constructed in every way, with a
\* MediaServer table of at most one row.
FewServerTables == {t \in ServerTables : Len(t) <= 1}
ProxyInit ==
    /\ GuardsIdle /\ LinkingIdle
    /\ AuthNotStarted(FewServerTables)
    /\ NoDelegatedLogin({<<>>})
    /\ ClientsIdle(SettingsTables) /\ OpsIdle
ProxyNext == Register \/ Construct \/ GenerateImageProxyUrl
ProxySpec == ProxyInit /\ [][ProxyNext]_vars

\* Calls of get_readonly_statistics and of join on clients of every kind.
OpsInit ==
    /\ GuardsIdle /\ LinkingIdle
    /\ AuthNotStarted({<<>>})
    /\ NoDelegatedLogin({<<>>})
    /\ ClientsIdle(NoSettings) /\ OpsIdle
OpsNext == GetReadonlyStatistics \/ Join \/ Request
OpsSpec == OpsInit /\ [][OpsNext]_vars

\* One call of _cache_user_metadata_batch, for every batch and outcome.
BatchInit == OpsInit
BatchNext == BatchStart \/ BatchUser \/ BatchCommit
BatchSpec == BatchInit /\ [][BatchNext]_vars

\* Invitations created, listed and deleted by two guests and an admin.
InviteInit == OpsInit
InviteNext == CreateInvite \/ InviteTable
InviteSpec == InviteInit /\ [][InviteNext]_vars

(***************************************************************************)
(* Properties of the guards (GuardSpec).                                   *)
(***************************************************************************)
Served == request.guard # None
Invoked == response.calls # <<>>

\* An authenticated account with role guest that is not the legacy admin.
GuestActor ==
    /\ current_user.authenticated
    /\ current_user.role = "guest"
    /\ ~IsLegacy(current_user)

\* C1: a guest's request to an admin_required view ends in 403 and the view
\* is not called; the same guest's request to a guest_allowed view calls
\* the view.
C1_GuestForbiddenAdminAllowedGuest ==
    GuestActor =>
        /\ request.guard = "admin_required" =>
               response.kind = "forbidden" /\ response.calls = <<>>
        /\ request.guard = "guest_allowed" =>
               response.kind \in {"returned", "raised"}
               /\ response.calls = <<request.args>>

C1_Witness ==
    /\ GuestActor
    /\ current_user.methods
    /\ request.guard = "admin_required"
    /\ response.kind = "forbidden"

\* C2: under each of the three guards a request of an actor that is not
\* authenticated gets the login manager's unauthorized response, whatever
\* role and id the actor carries: the view is not called, and there is no
\* 403.
C2_UnauthenticatedIsUnauthorized ==
    (Served /\ ~current_user.authenticated) =>
        /\ response.kind = "unauthorized"
        /\ response.calls = <<>>

C2_Witness ==
    /\ ~current_user.authenticated
    /\ current_user.role = "admin"
    /\ current_user.id = "admin"
    /\ request.guard = "guest_allowed"
    /\ response.kind = "unauthorized"

\* C3: a guard that lets the request through calls the view exactly once,
\* with the arguments it was given, and its result is the view's (the value
\* returned, or the exception raised); a guard that denies does not call it.
C3_PassThrough ==
    Served =>
        IF response.kind \in {"unauthorized", "forbidden"}
        THEN response.calls = <<>>
        ELSE /\ response.calls = <<request.args>>
             /\ response.value = f_outcome
             /\ response.kind = "raised" <=> f_outcome = "raise"

C3_Witness ==
    /\ request.guard = "permission_required"
    /\ request.args = "x2"
    /\ response.kind = "returned"
    /\ response.value = "r2"
    /\ response.calls = <<"x2">>

\* C4: has_permission follows the role table: admin has manage_users,
\* manage_settings, create_invites and view_invites; guest has
\* create_invites and view_invites and neither manage_users nor
\* manage_settings; the legacy admin has every permission; manage_users is
\* held iff the role is admin or the account is the legacy admin.
C4_RoleTable ==
    LET a == current_user
    IN  /\ a.role = "admin" =>
               \A p \in {"manage_users", "manage_settings",
                         "create_invites", "view_invites"} :
                   has_permission(a, p)
        /\ (a.role = "guest" /\ ~IsLegacy(a)) =>
               /\ has_permission(a, "create_invites")
               /\ has_permission(a, "view_invites")
               /\ ~has_permission(a, "manage_users")
               /\ ~has_permission(a, "manage_settings")
        /\ IsLegacy(a) => \A p \in Permissions : has_permission(a, p)
        /\ has_permission(a, "manage_users")
               <=> (a.role = "admin" \/ IsLegacy(a))

C4_Witness ==
    /\ GuestActor
    /\ current_user.methods
    /\ request.guard = "permission_required"
    /\ request.permission = "manage_users"
    /\ response.kind = "forbidden"

\* C5: for an authenticated actor, the view behind permission_required(p)
\* is called iff the actor's has_permission(p) is true or the actor is the
\* legacy admin (id == 'admin'); otherwise the result is 403.
C5_PermissionRequired ==
    (current_user.authenticated /\ request.guard = "permission_required") =>
        /\ Invoked <=>
             \/ current_user.methods
                /\ has_permission(current_user, request.permission)
             \/ IsLegacy(current_user)
        /\ ~Invoked => response.kind = "forbidden"

C5_Witness ==
    /\ GuestActor
    /\ current_user.methods
    /\ request.guard = "permission_required"
    /\ request.permission = "create_invites"
    /\ response.kind = "returned"

(***************************************************************************)
(* Properties of identity linking (LinkSpec).                              *)
(***************************************************************************)
\* A step in which _create_user_with_identity_linking ran.
Created == Len(session') = Len(session) + 1

\* The least of a non-empty set of row positions: the row stored first.
Earliest(positions) == CHOOSE i \in positions : \A j \in positions : i <= j

\* A present, syntactically valid email address.
ValidEmail(email) == email \in {"a@x.com", "b@x.com"}

IsUnlimited(code) ==
    \E i \in 1..Len(Invitations) :
        Invitations[i].code = code /\ Invitations[i].unlimited
IsLimited(code) ==
    \E i \in 1..Len(Invitations) :
        Invitations[i].code = code /\ ~Invitations[i].unlimited

C7_UnlimitedLinksByCodeAndEmail ==
    [][Created =>
        LET kw == link'.user_kwargs
            got == link'.new_user.identity_id
            same == {i \in 1..Len(Visible) :
                        Visible[i].code = kw.code
                        /\ Visible[i].email = kw.email}
        IN  IsUnlimited(kw.code) =>
            /\ got # kw.identity_id =>
                   /\ ValidEmail(kw.email)
                   /\ \E i \in same : Visible[i].identity_id = got
            /\ (ValidEmail(kw.email) /\ same # {}
                /\ Visible[Earliest(same)].identity_id # None)
               => got = Visible[Earliest(same)].identity_id]_vars

C7_Witness ==
    /\ Len(users) >= 2
    /\ users[1] = [code |-> "UNL", email |-> "a@x.com", identity_id |-> "G1"]
    /\ users[2] = [code |-> "UNL", email |-> "b@x.com", identity_id |-> "G2"]
    /\ link.user_kwargs = [code |-> "UNL", email |-> "a@x.com",
                           identity_id |-> None]
    /\ link.new_user.identity_id = "G1"

(***************************************************************************)
(* Properties of delegated authentication (AuthSpec).                      *)
(***************************************************************************)
\* The server takes the credentials: HTTP 200 with the login as a JSON
\* object.
Accepts(ans) == ans.status = "200" /\ ans.body = "object"

\* The first server, in the order of the query, that accepts; 0 if none.
FirstAccepting ==
    LET accepting == {k \in 1..Len(auth.answers) : Accepts(auth.answers[k])}
    IN  IF accepting = {} THEN 0 ELSE Earliest(accepting)

\* C8: a server that fails (no answer, an unreadable answer) or rejects does
\* not end the scan: when servers fail or reject and a later one accepts,
\* authenticate returns success with the name and the user info of the
\* accepting server.
C8_ScanSurvivesFailures ==
    (auth.pc = "done" /\ FirstAccepting # 0) =>
        auth.result =
            [success |-> TRUE,
             server_name |-> auth.servers[FirstAccepting].name,
             user_info |-> UserInfo(auth.answers[FirstAccepting].Id)]

C8_Witness ==
    /\ auth.pc = "done"
    /\ Len(auth.servers) = 3
    /\ auth.answers[1].status = "no answer"
    /\ auth.answers[2].status = "no answer"
    /\ Accepts(auth.answers[3])
    /\ auth.result.success
    /\ auth.result.server_name = auth.servers[3].name

\* C9: the servers are sent the credentials one at a time in the order of
\* the query, each at most once; once one accepts no later one is contacted
\* and its name is the one returned.
C9_StopsAtFirstSuccess ==
    /\ Len(auth.log) <= Len(auth.servers)
    /\ \A k \in 1..Len(auth.log) : auth.log[k] = auth.servers[k].name
    /\ \A k \in 1..Len(auth.log) :
           Accepts(auth.answers[k]) =>
               /\ k = Len(auth.log)
               /\ auth.pc = "done"
               /\ auth.result.success
               /\ auth.result.server_name = auth.servers[k].name
    /\ (auth.pc = "done" /\ auth.result.success) =>
           /\ auth.log # <<>>
           /\ Accepts(auth.answers[Len(auth.log)])

C9_Witness ==
    /\ auth.pc = "done"
    /\ Len(auth.servers) = 3
    /\ Accepts(auth.answers[1])
    /\ Accepts(auth.answers[2])
    /\ auth.log = <<auth.servers[1].name>>
    /\ auth.result.server_name = auth.servers[1].name

\* C10: when no server accepts (each answers 401, answers another status,
\* or fails), or no Jellyfin server is configured, authenticate returns
\* (False, None, None).
C10_NoServerAccepts ==
    (auth.pc = "done" /\ FirstAccepting = 0) => auth.result = AuthFailure

C10_Witness ==
    /\ auth.pc = "done"
    /\ Len(auth.servers) >= 2
    /\ \A k \in 1..Len(auth.servers) : auth.answers[k].status = "401"
    /\ auth.log = [k \in 1..Len(auth.servers) |-> auth.servers[k].name]
    /\ auth.result = AuthFailure

(***************************************************************************)
(* Properties of account provisioning (ProvisionSpec).                     *)
(***************************************************************************)
\* C11: delegated logins never duplicate an account. After a successful
\* delegated login the username has exactly one account; when the username
\* was unknown that account is new, has role guest and is linked to the
\* server that authenticated; when it was known the table is left as it
\* was; no username ever has two accounts.
C11_NoDuplicateAccounts ==
    [][LET u == login'.username
           before == {i \in 1..Len(accounts) : accounts[i].username = u}
           after == {i \in 1..Len(accounts') : accounts'[i].username = u}
       IN  /\ Cardinality(after) = 1
           /\ before = {} =>
                  /\ Len(accounts') = Len(accounts) + 1
                  /\ \A i \in after :
                         /\ accounts'[i].role = "guest"
                         /\ accounts'[i].jellyfin_server = login'.server_name
           /\ before # {} => accounts' = accounts
           /\ \A v \in Usernames :
                  Cardinality({i \in 1..Len(accounts') :
                                  accounts'[i].username = v}) <= 1]_vars

C11_Witness ==
    /\ accounts = <<[username |-> "ann", role |-> "guest",
                     jellyfin_server |-> "1", jellyfin_user_id |-> "u1"]>>
    /\ login = [username |-> "ann", server_name |-> "2", created |-> FALSE]

\* C12: every account has its two remote-linkage fields together: the
\* server name is set iff the remote user id is.
C12_LinkageTogether ==
    \A i \in 1..Len(accounts) :
        (accounts[i].jellyfin_server = None)
            <=> (accounts[i].jellyfin_user_id = None)

(***************************************************************************)
(* Properties of the registry and of construction (ClientSpec).            *)
(***************************************************************************)
\* The class of the last registration made under the tag, None if none.
LastRegistered(tag) ==
    LET made == {i \in 1..Len(registrations) : registrations[i].name = tag}
    IN  IF made = {} THEN None
        ELSE registrations[CHOOSE i \in made : \A j \in made : j <= i].cls

\* C14: after any sequence of registrations, CLIENTS[tag] is the class of
\* the last registration made for the tag (a later registration under the
\* same tag replaces the earlier one), and a tag never registered resolves
\* to nothing.
C14_LastRegistrationWins ==
    \A tag \in ServerTypes : CLIENTS[tag] = LastRegistered(tag)

C14_Witness ==
    /\ registrations = <<[name |-> "jellyfin", cls |-> "JellyfinClient"],
                         [name |-> "plex", cls |-> "JellyfinClient"],
                         [name |-> "jellyfin", cls |-> "PlexClient"]>>
    /\ CLIENTS["jellyfin"] = "PlexClient"
    /\ CLIENTS["plex"] = "JellyfinClient"

\* C15: construction resolves its configuration in strict precedence. An
\* explicit row is adopted (url, token, id) and no table is read; otherwise
\* the first stored row whose server_type is the class's registered tag is
\* adopted; otherwise url and token are the values of the two legacy
\* Settings keys and neither server_id nor server_row is set.
C15_ResolutionPrecedence ==
    [][instance' # instance =>
        LET self == instance'.self
            given == instance'.media_server
            tag == _server_type[self.cls]
            stored == {i \in 1..Len(media_servers) :
                          media_servers[i].server_type = tag}
            Adopted(row) ==
                /\ self.server_row = row
                /\ self.server_id = RowId(row)
                /\ self.url = RowUrl(row)
                /\ self.token = RowApiKey(row)
        IN  IF given # NoRow
            THEN Adopted(given) /\ self.queries = <<>>
            ELSE IF tag # None /\ stored # {}
            THEN Adopted(media_servers[Earliest(stored)])
            ELSE /\ self.url = settings["server_url"]
                 /\ self.token = settings["api_key"]
                 /\ self.server_id = NoAttr
                 /\ self.server_row = NoRow]_vars

C15_Witness ==
    /\ media_servers = <<[name |-> "1", server_type |-> "jellyfin"],
                         [name |-> "2", server_type |-> "plex"],
                         [name |-> "3", server_type |-> "plex"]>>
    /\ _server_type["PlexClient"] = "plex"
    /\ instance.media_server = media_servers[3]
    /\ instance.self.cls = "PlexClient"
    /\ instance.self.server_id = "3"
    /\ instance.self.queries = <<>>

(***************************************************************************)
(* Properties of the client operations (OpsSpec).                          *)
(***************************************************************************)
\* C13: get_readonly_statistics never runs statistics(): for a client
\* whose class overrides neither get_user_count nor get_server_info, a call
\* of get_readonly_statistics calls statistics() not even once.
C13_ReadonlyNeverCallsStatistics ==
    (/\ stats.called
     /\ ~stats.self.overrides_user_count
     /\ ~stats.self.overrides_server_info)
        => \A k \in 1..Len(stats.result.calls) :
               stats.result.calls[k] # "statistics"

\* C18: join is best-effort about the notification. Whatever notify does,
\* when _do_join returns (success, message) join returns that pair and does
\* not raise; notify is called at most once, and only when _do_join
\* returned success.
C18_JoinBestEffort ==
    joined.called =>
        LET d == joined.do_join
            r == joined.result
        IN  /\ ~d.raised =>
                   /\ ~r.raised
                   /\ r.success = d.success
                   /\ r.message = d.message
            /\ Len(r.notified) <= 1
            /\ r.notified # <<>> => (~d.raised /\ d.success)

C18_Witness ==
    /\ joined.called
    /\ joined.username = "ann"
    /\ joined.do_join = [raised |-> FALSE, success |-> TRUE,
                         message |-> "User created"]
    /\ joined.notify = "raises"
    /\ joined.result = [raised |-> FALSE, success |-> TRUE,
                        message |-> "User created", notified |-> <<"ann">>]

(***************************************************************************)
(* Properties of metadata caching (BatchSpec).                             *)
(***************************************************************************)
\* C19: _cache_user_metadata_batch is best-effort. It never raises,
\* whichever users fail and whatever the commit does; when it has returned,
\* every user with an identifier was fetched and every user whose fetch
\* succeeded was updated, whatever happened to the users before; commit is
\* called at most once, after the last call made for a user; and a commit
\* that fails is followed at once by a rollback.
C19_BatchBestEffort ==
    LET calls == batch.calls
        Made(op, k) == \E p \in 1..Len(calls) : calls[p] = Call(op, k)
        commits == {p \in 1..Len(calls) : calls[p].op = "commit"}
    IN  /\ ~batch.raised
        /\ Cardinality(commits) <= 1
        /\ \A p \in commits :
               /\ batch.pc = "returned"
               /\ \A q \in 1..Len(calls) : calls[q].user # 0 => q < p
               /\ batch.commit = "fails" =>
                      /\ p < Len(calls)
                      /\ calls[p + 1] = Call("rollback", 0)
        /\ batch.pc = "returned" =>
               \A k \in 1..Len(batch.users) :
                   /\ batch.users[k] # "no identifier"
                          => Made("get_user_details", k)
                   /\ batch.users[k] \in {"ok", "update fails"}
                          => Made("update_standardized_metadata", k)

C19_Witness ==
    /\ batch.pc = "returned"
    /\ batch.users = <<"details fail", "ok", "update fails">>
    /\ batch.commit = "fails"
    /\ batch.calls = <<Call("get_user_details", 1),
                       Call("get_user_details", 2),
                       Call("update_standardized_metadata", 2),
                       Call("get_user_details", 3),
                       Call("update_standardized_metadata", 3),
                       Call("commit", 0), Call("rollback", 0)>>

(***************************************************************************)
(* Properties of the cleanup and of staging (LinkAnySpec, LinkSpec).       *)
(***************************************************************************)
\* C16: a candidate with an email has the expired-row cleanup called for
\* that email exactly once, before the new row is made and added, whether
\* the candidate was linked or not and whether it had a known code, an
\* unknown code or none; for a candidate without an email the cleanup is
\* not called and no stored row is deleted.
C16_CleanupOncePerEmail ==
    [][Created =>
        LET kw == link'.user_kwargs
        IN  IF kw.email # None
            THEN /\ link'.cleanup = <<kw.email>>
                 /\ link'.calls = <<"cleanup_expired_user_by_email",
                                    "User", "db.session.add">>
            ELSE /\ link'.cleanup = <<>>
                 /\ link'.calls = <<"User", "db.session.add">>
                 /\ users' = users]_vars

C16_Witness ==
    /\ users = <<>>
    /\ Len(session) = 1
    /\ link.user_kwargs = [code |-> "GONE", email |-> "not-an-email",
                           identity_id |-> None]
    /\ link.cleanup = <<"not-an-email">>
    /\ link.new_user.identity_id = None

\* C17: the call does not commit. When it returns the new row is the last
\* row of the session and the stored rows gained none (the cleanup may
\* have deleted some); the stored rows grow only by the caller's commit,
\* which stores the staged rows.
C17_StagedNotCommitted ==
    [][/\ Created =>
            /\ session' = Append(session, link'.new_user)
            /\ Len(users') <= Len(users)
            /\ \A i \in 1..Len(users') :
                   \E j \in 1..Len(users) : users'[i] = users[j]
       /\ Len(users') > Len(users) =>
            /\ users' = users \o session
            /\ session' = <<>>]_vars

C17_Witness ==
    /\ users = <<>>
    /\ session = <<[code |-> "LIM", email |-> "a@x.com",
                    identity_id |-> "G1"]>>
    /\ link.new_user = session[1]

(***************************************************************************)
(* Properties of invitation ownership (InviteSpec).                        *)
(***************************************************************************)
\* C20: ownership isolates guests. A guest's listing holds exactly the
\* invitations that guest created and an admin's listing holds every
\* invitation; a guest's delete request for an invitation of another
\* account leaves the table as it was, while a delete of the guest's own
\* invitation, or any delete by an admin, removes that invitation and no
\* other.
C20_OwnershipIsolatesGuests ==
    [][(\/ table_view' # table_view
        \/ \E x \in InviteCodes : invites[x] # None /\ invites'[x] = None) =>
        LET a == table_view'.actor
            c == table_view'.delete
            mine == {x \in InviteCodes : invites'[x] = a}
            all == {x \in InviteCodes : invites'[x] # None}
        IN  /\ table_view'.listing = IF a = "admin1" THEN all ELSE mine
            /\ IF c = None THEN invites' = invites
               ELSE IF a # "admin1" /\ invites[c] # a THEN invites' = invites
               ELSE invites' = [invites EXCEPT ![c] = None]]_vars

C20_Witness ==
    /\ invites["1"] = "guest1"
    /\ invites["2"] = "guest2"
    /\ invites["3"] = "admin1"
    /\ table_view = [actor |-> "guest2", delete |-> "1", listing |-> {"2"}]

(***************************************************************************)
(* Further properties of the guards (GuardSpec).                           *)
(***************************************************************************)
\* C21: guest_allowed admits an authenticated actor only if its role is
\* admin or guest or it is the legacy admin; an authenticated actor with no
\* role, or with a role outside {admin, guest}, whose id is not 'admin' is
\* denied with 403 and the view is not called.
C21_GuestAllowedRecognizedRole ==
    (/\ request.guard = "guest_allowed"
     /\ current_user.authenticated
     /\ current_user.role \notin Roles
     /\ ~IsLegacy(current_user))
        => response.kind = "forbidden" /\ response.calls = <<>>

(***************************************************************************)
(* Properties of the REST helper (OpsSpec).                                *)
(***************************************************************************)
\* C22: _request returns a response only when its status is 2xx. For a
\* response with any other status (1xx, 3xx, 4xx, 5xx) it raises, and so it
\* does when the request fails on the network.
C22_ReturnsOnly2xx ==
    rest_call.called =>
        /\ ~rest_call.result.raised =>
               /\ 200 <= rest_call.result.status
               /\ rest_call.result.status < 300
        /\ rest_call.outcome.failed => rest_call.result.raised

(***************************************************************************)
(* Errors in the server loop (AuthSpec).                                   *)
(***************************************************************************)
\* An answer on which the per-server check fails with an error that is not
\* an I/O one: status 200 with a JSON body that is not an object, where
\* user_data.get raises AttributeError.
NonIOError(ans) == ans.status = "200" /\ ans.body = "array"

\* C23: a non-I/O error raised while checking a server is not swallowed
\* into "try the next server" but reaches the caller of authenticate: once
\* a checked server has answered 200 with a malformed body, the call has
\* ended by raising, it is neither still scanning nor returned normally.
C23_NonIOErrorReachesCaller ==
    \A k \in 1..Len(auth.log) :
        NonIOError(auth.answers[k]) => auth.pc = "raised"

(***************************************************************************)
(* Letter case of invitation codes (JoinSpec).                             *)
(***************************************************************************)
SameIgnoringCase(submitted, stored) ==
    submitted # None /\ lower(submitted) = lower(stored)

\* C24: invitation codes are matched case-insensitively wherever an
\* invitation is looked up by code: for a submitted code that differs from
\* a stored invitation's code at most in letter case, both the join form's
\* required-username check and the identity-linking lookup resolve that
\* invitation.
C24_CodeMatchIgnoresCase ==
    \A i \in 1..Len(Invitations) :
        /\ (form.called /\ SameIgnoringCase(form.code, Invitations[i].code))
               => form.invitation = i
        /\ (link # NoLink
            /\ SameIgnoringCase(link.user_kwargs.code, Invitations[i].code))
               => link.invitation = i

(***************************************************************************)
(* Linking that finds nothing to adopt (LinkAnySpec).                      *)
(***************************************************************************)
\* The rows seen by the lookup offer the candidate no identity group: it
\* has no code, or no invitation has its code, or no row it matches (same
\* code for a limited invitation; same code and same valid email for an
\* unlimited one) carries an identity group.
NothingToAdopt(rows, kw) ==
    \/ kw.code = None
    \/ ~IsLimited(kw.code) /\ ~IsUnlimited(kw.code)
    \/ /\ IsLimited(kw.code)
       /\ \A i \in 1..Len(rows) :
              rows[i].code = kw.code => rows[i].identity_id = None
    \/ /\ IsUnlimited(kw.code)
       /\ \/ ~ValidEmail(kw.email)
          \/ \A i \in 1..Len(rows) :
                 (rows[i].code = kw.code /\ rows[i].email = kw.email)
                     => rows[i].identity_id = None

\* C25: when the linking finds nothing to adopt, the candidate's identity
\* group is left as the caller supplied it, the new row is still created
\* (made and added to the session), and the call returns it.
C25_UnlinkedLeftAsSupplied ==
    [][Created =>
        LET kw == link'.user_kwargs
        IN  NothingToAdopt(users \o session, kw) =>
                /\ link'.new_user = [code |-> kw.code, email |-> kw.email,
                                     identity_id |-> kw.identity_id]
                /\ session' = Append(session, link'.new_user)
                /\ link'.calls[Len(link'.calls) - 1] = "User"
                /\ link'.calls[Len(link'.calls)] = "db.session.add"]_vars

\* A candidate with an identity group of its own redeemed a limited
\* invitation whose only stored row has none: the row was created with the
\* group the caller supplied.
C25_Witness ==
    /\ users = <<[code |-> "LIM", email |-> None, identity_id |-> None]>>
    /\ link.user_kwargs =
           [code |-> "LIM", email |-> None, identity_id |-> "G1"]
    /\ link.new_user.identity_id = "G1"
    /\ session = <<link.new_user>>

(***************************************************************************)
(* Redemptions in parallel (RaceSpec).                                     *)
(***************************************************************************)
\* C26: after any interleaving of concurrent redemptions of one limited
\* invitation (linking lookup, row creation, commit by the caller), all the
\* stored rows with that code that carry an identity group carry the same
\* one.
C26_SameCodeSameGroup ==
    \A i, j \in 1..Len(users) :
        (/\ users[i].code = "LIM" /\ users[j].code = "LIM"
         /\ users[i].identity_id # None /\ users[j].identity_id # None)
            => users[i].identity_id = users[j].identity_id

C28_AdoptedGroupStillHeld ==
    [][Created =>
        LET kw == link'.user_kwargs
            adopted == link'.new_user.identity_id
        IN  (adopted # None /\ adopted # kw.identity_id) =>
                \E row \in {users'[i] : i \in 1..Len(users')}
                           \cup {session[i] : i \in 1..Len(session)} :
                    row.identity_id = adopted]_vars

(***************************************************************************)
(* The registry and the classes' tags (ClientSpec).                        *)
(***************************************************************************)
\* C29: after any sequence of register_media_client calls, the same class
\* registered under several tags included, every class stored in the
\* registry under tag t has _server_type equal to t, so that a client made
\* by resolving t looks up the MediaServer rows of type t.
C29_RegisteredTagMatches ==
    \A t \in ServerTypes :
        CLIENTS[t] # None => _server_type[CLIENTS[t]] = t

(***************************************************************************)
(* Image proxy URLs (ProxySpec).                                           *)
(***************************************************************************)
\* C30: generate_image_proxy_url returns a same-origin path of the form
\* /image-proxy?token=<opaque> for a client constructed through any of the
\* three configuration-resolution paths: an explicit row, the first stored
\* row of the class's type, and the legacy-settings fallback in which no
\* server id was set on the instance.
C30_ProxyUrlOnEveryPath ==
    proxy.called =>
        /\ ~proxy.result.raised
        /\ proxy.result.path = "/image-proxy"
        /\ proxy.result.token \in {quote_plus(t) : t \in Tokens}

====
